---------------------------- MODULE Spec2Model ----------------------------
(***************************************************************************)
(* A model of the sudoku puzzle state (src/src/lib.rs) and of the terminal *)
(* front-end (src/src/ratatui.rs): the key handler, the terminal guard of  *)
(* main, the responsive layout and the grid renderer.                      *)
(*                                                                         *)
(* Coordinates follow the source: x is the first index of the 9x9 array,   *)
(* y the second; both run over 0..8.                                       *)
(***************************************************************************)
EXTENDS Integers, Sequences, FiniteSets, TLC

VARIABLES
    app,        \* the App of ratatui.rs: model, cursor_x, cursor_y, should_quit, debug
    created,    \* the model as it was built by From / new (history, never written again)
    steps,      \* how many operations have been applied so far
    twin,       \* a second App built from the same model (two runs compared)
    canvas,     \* the terminal size, [width, height]
    painted,    \* what the last terminal.draw painted
    checks,     \* whether the build checks integer overflow (debug) or wraps (release)
    term        \* main's position and the terminal's mode

vars == <<app, created, steps, twin, canvas, painted, checks, term>>

-----------------------------------------------------------------------------
(* Bounds of the model *)

\* operations (key events and library calls) applied in one behaviour
MaxSteps == 2

-----------------------------------------------------------------------------
(* src/src/lib.rs *)

U8Max == 255
U8Mod == 256

Idx == 0 .. 8
Sub == 0 .. 2

\* SudokuValue::default()
DefaultValue == [value |-> 0, enabled |-> TRUE]

\* SudokuModel::new() / SudokuModel::default()
ModelNew ==
    [top_x \in Sub |-> [top_y \in Sub |->
        [cell_x \in Sub |-> [cell_y \in Sub |-> DefaultValue]]]]

\* SudokuModel::get: cells[top_x][top_y].values[cell_x][cell_y]
Get(m, x, y) == m[x \div 3][y \div 3][x % 3][y % 3]

\* a write through the reference SudokuModel::get_mut returns
Put(m, x, y, sv) ==
    LET top_x == x \div 3
        top_y == y \div 3
        cell_x == x % 3
        cell_y == y % 3
    IN  [m EXCEPT ![top_x][top_y][cell_x][cell_y] = sv]

\* SudokuModel::set without the guard on target.enabled
SetUnguarded(m, x, y, value) ==
    LET target == Get(m, x, y)
    IN  Put(m, x, y, [target EXCEPT !.value = IF value = U8Max THEN 9 ELSE value % 10])

\* SudokuModel::set storing the value as it comes, not reduced to a digit
SetAsGiven(m, x, y, value) ==
    LET target == Get(m, x, y)
    IN  IF target.enabled
        THEN Put(m, x, y, [target EXCEPT !.value = value])
        ELSE m

\* SudokuModel::set
Set(m, x, y, value) ==
    LET target == Get(m, x, y)
    IN  IF target.enabled
        THEN Put(m, x, y, [target EXCEPT !.value = IF value = U8Max THEN 9 ELSE value % 10])
        ELSE m

\* SudokuModel::set_enabled
SetEnabled(m, x, y, enabled) ==
    Put(m, x, y, [Get(m, x, y) EXCEPT !.enabled = enabled])

\* u8::wrapping_add_signed
WrappingAddSigned(v, d) == (v + d) % U8Mod

\* SudokuModel::add with the sum clamped at 0 and 255 instead of wrapped
AddSaturating(m, x, y, value) ==
    LET sum == Get(m, x, y).value + value
    IN  Set(m, x, y, IF sum < 0 THEN 0 ELSE IF sum > U8Max THEN U8Max ELSE sum)

\* SudokuModel::add
Add(m, x, y, value) ==
    Set(m, x, y, WrappingAddSigned(Get(m, x, y).value, value))

\* impl From<[[u8; 9]; 9]> for SudokuModel, the body of the two loops for one (x, y):
\* the cell (x, y) of the result after set and set_enabled, when num is not zero
FromCell(array, x, y) ==
    LET num == array[x + 1][y + 1]
    IN  IF num # 0
        THEN Get(SetEnabled(Set(ModelNew, x, y, num), x, y, FALSE), x, y)
        ELSE Get(ModelNew, x, y)

\* impl From<[[u8; 9]; 9]> for SudokuModel. The loops visit every (x, y) once and an
\* iteration writes the cell (x, y) of the default model only, so the result is given
\* cell by cell.
From(array) ==
    [top_x \in Sub |-> [top_y \in Sub |->
        [cell_x \in Sub |-> [cell_y \in Sub |->
            FromCell(array, 3 * top_x + cell_x, 3 * top_y + cell_y)]]]]

\* the array of SudokuModel::example()
ExampleArray ==
    << <<1, 6, 7, 8, 9, 2, 3, 4, 5>>,
       <<4, 2, 8, 0, 0, 0, 0, 0, 0>>,
       <<5, 9, 3, 0, 0, 0, 0, 0, 0>>,
       <<6, 0, 0, 4, 0, 0, 0, 0, 0>>,
       <<7, 0, 0, 0, 5, 0, 0, 0, 0>>,
       <<8, 0, 0, 0, 0, 6, 0, 0, 0>>,
       <<9, 0, 0, 0, 0, 0, 7, 0, 0>>,
       <<2, 0, 0, 0, 0, 0, 0, 8, 0>>,
       <<3, 0, 0, 0, 0, 0, 0, 0, 9>> >>

Example == From(ExampleArray)

\* the values 1..9 of HashSet::<u8>::from_iter(1..=9)
Digits19 == 1 .. 9

\* SudokuModel::colour, first loop: the 3x3 block cell, position i = 3 * lookup_x +
\* lookup_y, for the target at (cell_x, cell_y). The result tells whether the loop
\* returned Colour::Red early and, if it did not, the set cell_values after the loop.
RECURSIVE ColourBlockLoop(_, _, _, _, _, _)
ColourBlockLoop(cell, target, cell_x, cell_y, i, cell_values) ==
    IF i = 9 THEN [red |-> FALSE, values |-> cell_values]
    ELSE LET lookup_x == i \div 3
             lookup_y == i % 3
             value == cell[lookup_x][lookup_y].value
         IN  IF lookup_x = cell_x /\ lookup_y = cell_y
             THEN ColourBlockLoop(cell, target, cell_x, cell_y, i + 1, cell_values \ {value})
             ELSE IF target = value
                  THEN [red |-> TRUE, values |-> {}]
                  ELSE ColourBlockLoop(cell, target, cell_x, cell_y, i + 1,
                                       cell_values \ {value})

\* SudokuModel::colour, second loop: lookup_x over 0..9 at the cell's y
RECURSIVE ColourRowLoop(_, _, _, _, _, _)
ColourRowLoop(m, target, x, y, lookup_x, row_values) ==
    IF lookup_x = 9 THEN [red |-> FALSE, values |-> row_values]
    ELSE LET value == Get(m, lookup_x, y).value
         IN  IF x # lookup_x /\ target = value
             THEN [red |-> TRUE, values |-> {}]
             ELSE ColourRowLoop(m, target, x, y, lookup_x + 1, row_values \ {value})

\* SudokuModel::colour, third loop: lookup_y over 0..9 at the cell's x
RECURSIVE ColourColLoop(_, _, _, _, _, _)
ColourColLoop(m, target, x, y, lookup_y, col_values) ==
    IF lookup_y = 9 THEN [red |-> FALSE, values |-> col_values]
    ELSE LET value == Get(m, x, lookup_y).value
         IN  IF y # lookup_y /\ target = value
             THEN [red |-> TRUE, values |-> {}]
             ELSE ColourColLoop(m, target, x, y, lookup_y + 1, col_values \ {value})

\* the last statement of SudokuModel::colour asking for all three sets to be empty
ColourOfSetsAllEmpty(cell_values, row_values, col_values) ==
    IF cell_values = {} /\ row_values = {} /\ col_values = {}
    THEN "Green"
    ELSE "Black"

\* the last statement of SudokuModel::colour
ColourOfSets(cell_values, row_values, col_values) ==
    IF cell_values = {} \/ row_values = {} \/ col_values = {}
    THEN "Green"
    ELSE "Black"

\* SudokuModel::colour with the column loop left out
ColourNoColumn(m, x, y) ==
    LET cell == m[x \div 3][y \div 3]
        target == cell[x % 3][y % 3].value
    IN  IF target # 0
        THEN LET block == ColourBlockLoop(cell, target, x % 3, y % 3, 0, Digits19)
             IN  IF block.red THEN "Red"
                 ELSE LET row == ColourRowLoop(m, target, x, y, 0, Digits19)
                      IN  IF row.red THEN "Red"
                          ELSE ColourOfSets(block.values, row.values, Digits19)
        ELSE ColourOfSets(Digits19, Digits19, Digits19)

\* SudokuModel::colour
Colour(m, x, y) ==
    LET cell == m[x \div 3][y \div 3]
        target == cell[x % 3][y % 3].value
    IN  IF target # 0
        THEN LET block == ColourBlockLoop(cell, target, x % 3, y % 3, 0, Digits19)
             IN  IF block.red THEN "Red"
                 ELSE LET row == ColourRowLoop(m, target, x, y, 0, Digits19)
                      IN  IF row.red THEN "Red"
                          ELSE LET col == ColourColLoop(m, target, x, y, 0, Digits19)
                               IN  IF col.red THEN "Red"
                                   ELSE ColourOfSets(block.values, row.values, col.values)
        ELSE ColourOfSets(Digits19, Digits19, Digits19)

-----------------------------------------------------------------------------
(* src/src/ratatui.rs: App and App::handle_key *)

\* App::new
AppNew(model) ==
    [model |-> model, cursor_x |-> 0, cursor_y |-> 0, should_quit |-> FALSE, debug |-> FALSE]

\* KeyCode::Char(c) is the one-character string c, any other KeyCode its name
DigitChars == <<"0", "1", "2", "3", "4", "5", "6", "7", "8", "9">>

\* char::is_ascii_digit
IsAsciiDigit(c) == \E i \in 1 .. 10 : DigitChars[i] = c

\* char::to_digit(10)
ToDigit(c) == (CHOOSE i \in 1 .. 10 : DigitChars[i] = c) - 1

\* the keys the model sends: every key the match names, and two it does not
Keys ==
    {"d", "Esc", "q", "Up", "k", "Down", "j", "Left", "h", "Right", "l",
     "Backspace", "Delete", "+", "=", "-", "_", "x", "Tab"}
    \cup {DigitChars[i] : i \in 1 .. 10}

\* handle_key with the coordinates of the digit arm swapped in the call of set
HandleKeySwapped(a, key) ==
    CASE key = "d" ->
            [a EXCEPT !.debug = ~a.debug]
      [] key \in {"Esc", "q"} ->
            [a EXCEPT !.should_quit = TRUE]
      [] key \in {"Up", "k"} ->
            IF a.cursor_y > 0 THEN [a EXCEPT !.cursor_y = a.cursor_y - 1] ELSE a
      [] key \in {"Down", "j"} ->
            IF a.cursor_y < 8 THEN [a EXCEPT !.cursor_y = a.cursor_y + 1] ELSE a
      [] key \in {"Left", "h"} ->
            IF a.cursor_x > 0 THEN [a EXCEPT !.cursor_x = a.cursor_x - 1] ELSE a
      [] key \in {"Right", "l"} ->
            IF a.cursor_x < 8 THEN [a EXCEPT !.cursor_x = a.cursor_x + 1] ELSE a
      [] IsAsciiDigit(key) ->
            IF Get(a.model, a.cursor_x, a.cursor_y).enabled
            THEN [a EXCEPT !.model = Set(a.model, a.cursor_y, a.cursor_x, ToDigit(key))]
            ELSE a
      [] key \in {"Backspace", "Delete"} ->
            IF Get(a.model, a.cursor_x, a.cursor_y).enabled
            THEN [a EXCEPT !.model = Set(a.model, a.cursor_x, a.cursor_y, 0)]
            ELSE a
      [] key \in {"+", "="} ->
            IF Get(a.model, a.cursor_x, a.cursor_y).enabled
            THEN [a EXCEPT !.model = Add(a.model, a.cursor_x, a.cursor_y, 1)]
            ELSE a
      [] key \in {"-", "_"} ->
            IF Get(a.model, a.cursor_x, a.cursor_y).enabled
            THEN [a EXCEPT !.model = Add(a.model, a.cursor_x, a.cursor_y, -1)]
            ELSE a
      [] OTHER -> a

\* handle_key without the test for the right edge of the grid
HandleKeyUnguarded(a, key) ==
    CASE key = "d" ->
            [a EXCEPT !.debug = ~a.debug]
      [] key \in {"Esc", "q"} ->
            [a EXCEPT !.should_quit = TRUE]
      [] key \in {"Up", "k"} ->
            IF a.cursor_y > 0 THEN [a EXCEPT !.cursor_y = a.cursor_y - 1] ELSE a
      [] key \in {"Down", "j"} ->
            IF a.cursor_y < 8 THEN [a EXCEPT !.cursor_y = a.cursor_y + 1] ELSE a
      [] key \in {"Left", "h"} ->
            IF a.cursor_x > 0 THEN [a EXCEPT !.cursor_x = a.cursor_x - 1] ELSE a
      [] key \in {"Right", "l"} ->
            [a EXCEPT !.cursor_x = a.cursor_x + 1]
      [] IsAsciiDigit(key) ->
            IF Get(a.model, a.cursor_x, a.cursor_y).enabled
            THEN [a EXCEPT !.model = Set(a.model, a.cursor_x, a.cursor_y, ToDigit(key))]
            ELSE a
      [] key \in {"Backspace", "Delete"} ->
            IF Get(a.model, a.cursor_x, a.cursor_y).enabled
            THEN [a EXCEPT !.model = Set(a.model, a.cursor_x, a.cursor_y, 0)]
            ELSE a
      [] key \in {"+", "="} ->
            IF Get(a.model, a.cursor_x, a.cursor_y).enabled
            THEN [a EXCEPT !.model = Add(a.model, a.cursor_x, a.cursor_y, 1)]
            ELSE a
      [] key \in {"-", "_"} ->
            IF Get(a.model, a.cursor_x, a.cursor_y).enabled
            THEN [a EXCEPT !.model = Add(a.model, a.cursor_x, a.cursor_y, -1)]
            ELSE a
      [] OTHER -> a

\* App::handle_key: the arms of the match, in the order of the source
HandleKey(a, key) ==
    CASE key = "d" ->
            [a EXCEPT !.debug = ~a.debug]
      [] key \in {"Esc", "q"} ->
            [a EXCEPT !.should_quit = TRUE]
      [] key \in {"Up", "k"} ->
            IF a.cursor_y > 0 THEN [a EXCEPT !.cursor_y = a.cursor_y - 1] ELSE a
      [] key \in {"Down", "j"} ->
            IF a.cursor_y < 8 THEN [a EXCEPT !.cursor_y = a.cursor_y + 1] ELSE a
      [] key \in {"Left", "h"} ->
            IF a.cursor_x > 0 THEN [a EXCEPT !.cursor_x = a.cursor_x - 1] ELSE a
      [] key \in {"Right", "l"} ->
            IF a.cursor_x < 8 THEN [a EXCEPT !.cursor_x = a.cursor_x + 1] ELSE a
      [] IsAsciiDigit(key) ->
            IF Get(a.model, a.cursor_x, a.cursor_y).enabled
            THEN [a EXCEPT !.model = Set(a.model, a.cursor_x, a.cursor_y, ToDigit(key))]
            ELSE a
      [] key \in {"Backspace", "Delete"} ->
            IF Get(a.model, a.cursor_x, a.cursor_y).enabled
            THEN [a EXCEPT !.model = Set(a.model, a.cursor_x, a.cursor_y, 0)]
            ELSE a
      [] key \in {"+", "="} ->
            IF Get(a.model, a.cursor_x, a.cursor_y).enabled
            THEN [a EXCEPT !.model = Add(a.model, a.cursor_x, a.cursor_y, 1)]
            ELSE a
      [] key \in {"-", "_"} ->
            IF Get(a.model, a.cursor_x, a.cursor_y).enabled
            THEN [a EXCEPT !.model = Add(a.model, a.cursor_x, a.cursor_y, -1)]
            ELSE a
      [] OTHER -> a

-----------------------------------------------------------------------------
(* The puzzle under its operations: key events and calls of the library *)

\* an array whose entries are not all digits: 10, 13, 200 and 255 are u8 values too
OddArray ==
    << <<0, 0, 10, 0, 0, 0, 0, 0, 0>>,
       <<0, 5, 0, 0, 0, 0, 0, 0, 0>>,
       <<13, 0, 0, 0, 0, 0, 0, 0, 0>>,
       <<0, 0, 0, 0, 0, 0, 0, 0, 0>>,
       <<0, 0, 0, 0, 0, 0, 0, 0, 0>>,
       <<0, 0, 0, 0, 0, 0, 0, 0, 0>>,
       <<0, 0, 0, 0, 0, 0, 0, 0, 0>>,
       <<0, 0, 0, 0, 0, 0, 0, 0, 0>>,
       <<255, 0, 0, 0, 0, 0, 0, 0, 200>> >>

\* the array of SudokuModel::new(): From skips every zero
ZeroArray == [x \in 1 .. 9 |-> [y \in 1 .. 9 |-> 0]]

\* the arrays a model is built from
Arrays == {ExampleArray, ZeroArray, OddArray}

\* the coordinates, u8 values and i8 deltas the library is called with
CallCoords == {0, 3, 8}
CallValues == {8, 10, 255}
CallDeltas == {1, -1}

\* the values of the variables a specification does not use
NoCanvas == [width |-> 0, height |-> 0]
NoPaint == [kind |-> "none"]
NoTerm == [pc |-> "none"]

Init ==
    /\ \E array \in Arrays :
          /\ created = From(array)
          /\ app = AppNew(From(array))
    /\ steps = 0
    /\ twin = app
    /\ canvas = NoCanvas
    /\ painted = NoPaint
    /\ checks = FALSE
    /\ term = NoTerm

\* run_app: one key press handled; the loop ends once should_quit is set
KeyEvent(key) ==
    /\ steps < MaxSteps
    /\ ~app.should_quit
    /\ app' = HandleKey(app, key)
    /\ steps' = steps + 1
    /\ UNCHANGED <<created, twin, canvas, painted, checks, term>>

\* a front-end calls SudokuModel::set
CallSet(x, y, value) ==
    /\ steps < MaxSteps
    /\ app' = [app EXCEPT !.model = Set(app.model, x, y, value)]
    /\ steps' = steps + 1
    /\ UNCHANGED <<created, twin, canvas, painted, checks, term>>

\* a front-end calls SudokuModel::add
CallAdd(x, y, value) ==
    /\ steps < MaxSteps
    /\ app' = [app EXCEPT !.model = Add(app.model, x, y, value)]
    /\ steps' = steps + 1
    /\ UNCHANGED <<created, twin, canvas, painted, checks, term>>

Next ==
    \/ \E key \in Keys : KeyEvent(key)
    \/ \E x \in CallCoords, y \in CallCoords, value \in CallValues : CallSet(x, y, value)
    \/ \E x \in CallCoords, y \in CallCoords, value \in CallDeltas : CallAdd(x, y, value)

Spec == Init /\ [][Next]_vars

-----------------------------------------------------------------------------
(* Properties of the puzzle state *)

Cells == Idx \X Idx

\* the cells that share a row, a column or a 3x3 block with (x, y), without (x, y)
Peers(x, y) ==
    {c \in Cells :
        /\ c # <<x, y>>
        /\ \/ c[1] = x
           \/ c[2] = y
           \/ (c[1] \div 3 = x \div 3 /\ c[2] \div 3 = y \div 3)}

\* the cell (x, y) is not empty and a peer holds the same value
HasDuplicate(m, x, y) ==
    /\ Get(m, x, y).value # 0
    /\ \E c \in Peers(x, y) : Get(m, c[1], c[2]).value = Get(m, x, y).value

\* the 27 lines of the grid: the cells of a fixed x, of a fixed y, and of a block
Lines ==
    {{c \in Cells : c[1] = x} : x \in Idx}
    \cup {{c \in Cells : c[2] = y} : y \in Idx}
    \cup {{c \in Cells : c[1] \div 3 = bx /\ c[2] \div 3 = by} : bx \in Sub, by \in Sub}

\* a line that holds each of the digits 1..9 (in its nine cells, so each exactly once)
IsComplete(m, line) ==
    {Get(m, c[1], c[2]).value : c \in line} = 1 .. 9

\* C1: every fixed cell (enabled = false at creation) still holds the value it had at
\* creation, and no cell's fixed flag differs from the one it was created with, after
\* any sequence of key events and of calls of set and add.
C1_FixedCellsKeepValue ==
    \A c \in Cells :
        LET now == Get(app.model, c[1], c[2])
            was == Get(created, c[1], c[2])
        IN  /\ now.enabled = was.enabled
            /\ ~was.enabled => now.value = was.value

\* C1 witness: all the operations of the run were applied, the cursor rests on a fixed
\* cell that holds a digit, and the editable part of the puzzle has been changed.
C1_Witness ==
    /\ steps = MaxSteps
    /\ ~Get(created, app.cursor_x, app.cursor_y).enabled
    /\ Get(app.model, app.cursor_x, app.cursor_y).value # 0
    /\ app.model # created

\* C8: colour(x, y) is Red exactly when the cell is not empty and another cell of its
\* row, its column or its block holds the same value.
C8_RedIffDuplicate ==
    \A c \in Cells :
        (Colour(app.model, c[1], c[2]) = "Red") <=> HasDuplicate(app.model, c[1], c[2])

\* C8 witness: an editable cell was given the value of a fixed cell of its line; both
\* are Red, and a third cell that holds a digit is not.
C8_Witness ==
    \E c \in Cells :
        /\ ~Get(app.model, c[1], c[2]).enabled
        /\ Colour(app.model, c[1], c[2]) = "Red"
        /\ \E e \in Peers(c[1], c[2]) :
              /\ Get(app.model, e[1], e[2]).enabled
              /\ Get(created, e[1], e[2]).value = 0
              /\ Get(app.model, e[1], e[2]).value = Get(app.model, c[1], c[2]).value
              /\ Colour(app.model, e[1], e[2]) = "Red"
        /\ \E u \in Cells :
              /\ Get(app.model, u[1], u[2]).value # 0
              /\ Colour(app.model, u[1], u[2]) # "Red"

\* C9 as claimed: every cell of a row, column or block that holds each of 1..9 exactly
\* once is Green.
C9_CompleteLineIsGreen ==
    \A line \in Lines :
        IsComplete(app.model, line) =>
            \A c \in line : Colour(app.model, c[1], c[2]) = "Green"

\* C9 as amended: a cell of a row, column or block that holds each of 1..9 exactly once
\* is Green unless its value is also held by another cell of its row, column or block;
\* then it is Red.
C9_CompleteLineGreenOrRed ==
    \A line \in Lines :
        IsComplete(app.model, line) =>
            \A c \in line :
                Colour(app.model, c[1], c[2]) =
                    IF HasDuplicate(app.model, c[1], c[2]) THEN "Red" ELSE "Green"

\* C9 witness: a complete line with a Green cell and a cell that is Red because of a
\* duplicate outside the line.
C9_Witness ==
    \E line \in Lines :
        /\ IsComplete(app.model, line)
        /\ \E c \in line : Colour(app.model, c[1], c[2]) = "Green"
        /\ \E c \in line : Colour(app.model, c[1], c[2]) = "Red"

\* the model m with the cell (x, y) replaced by sv, written without the model's Put
WithCell(m, x, y, sv) ==
    [m EXCEPT ![x \div 3][y \div 3][x % 3][y % 3] = sv]

\* C10: add(x, y, +1) leaves an editable cell that held v holding (v + 1) mod 10 and
\* add(x, y, -1) leaves it holding (v + 9) mod 10; on a fixed cell add changes nothing;
\* every other cell, and the cell's enabled flag, is unchanged.
C10_AddWraps ==
    \A c \in Cells, d \in CallDeltas :
        LET old == Get(app.model, c[1], c[2])
            v == old.value
            expected ==
                IF old.enabled
                THEN [value |-> IF d = 1 THEN (v + 1) % 10 ELSE (v + 9) % 10,
                      enabled |-> TRUE]
                ELSE old
        IN  Add(app.model, c[1], c[2], d) = WithCell(app.model, c[1], c[2], expected)

\* C10 witness: an editable cell holds 9 (add +1 wraps it to 0), an editable cell holds
\* 0 (add -1 wraps it to 9), a fixed cell holds a digit, and add has stepped a cell that
\* was empty at creation down to 9 and to 8.
C10_Witness ==
    /\ steps = 2
    /\ \E c \in Cells :
          /\ Get(app.model, c[1], c[2]) = [value |-> 8, enabled |-> TRUE]
          /\ Get(created, c[1], c[2]).value = 0
          /\ app.model = Add(Add(created, c[1], c[2], -1), c[1], c[2], -1)
    /\ \E c \in Cells : Get(app.model, c[1], c[2]) = [value |-> 0, enabled |-> TRUE]
    /\ \E c \in Cells : ~Get(app.model, c[1], c[2]).enabled

-----------------------------------------------------------------------------
(* src/src/ratatui.rs: LayoutConfig *)

\* LayoutConfig::from_size
FromSize(width, height) ==
    LET cell_h == IF height < 17 THEN 1 ELSE 2
        cell_w == IF width < 23 THEN 1
                  ELSE IF width < 32 THEN 2
                  ELSE IF width < 50 THEN 3
                  ELSE 5
    IN  [cell_h |-> cell_h,
         cell_w |-> cell_w,
         outer_border |-> (height > 18 /\ height < 29) \/ (width > 60 /\ height > 30),
         cell_border |-> cell_w > 2 /\ cell_h > 1,
         cell_collapsed |-> width < 39 \/ height < 29,
         separators_visible |->
             /\ width > 10
             /\ height > 10
             /\ ~((width > 20 /\ width < 29) \/ (height > 20 /\ height < 29)),
         separators_collapsed |->
             \/ height < 11
             \/ width < 11
             \/ (width > 16 /\ width < 21)
             \/ (height > 16 /\ height < 21)]

\* grid_size without the column (row) taken off for cells larger than 1 when there is
\* no outer border
GridSizeNoShrink(config, cell_size) ==
    LET base == 9 * cell_size
        cells == IF ~config.cell_collapsed THEN base + 9
                 ELSE IF config.cell_border THEN base - 7
                 ELSE base
        outer == IF config.outer_border THEN cells + 1 ELSE cells
    IN  IF config.separators_visible /\ ~config.separators_collapsed
        THEN outer + 2
        ELSE outer

\* LayoutConfig::grid_size
GridSize(config, cell_size) ==
    LET base == 9 * cell_size
        cells == IF ~config.cell_collapsed THEN base + 9
                 ELSE IF config.cell_border THEN base - 7
                 ELSE base
        outer == IF config.outer_border THEN cells + 1
                 ELSE IF cell_size > 1 THEN cells - 1
                 ELSE cells
    IN  IF config.separators_visible /\ ~config.separators_collapsed
        THEN outer + 2
        ELSE outer

\* LayoutConfig::grid_width
GridWidth(config) == GridSize(config, config.cell_w)

\* LayoutConfig::grid_height with the third override returning 22, the value the test
\* from_size_21 expects, in place of 21
GridHeight22(config) ==
    LET c == config
        Is(cell_h, outer, border, collapsed, visible, sep_collapsed) ==
            /\ c.cell_h = cell_h
            /\ c.outer_border = outer
            /\ c.cell_border = border
            /\ c.cell_collapsed = collapsed
            /\ c.separators_visible = visible
            /\ c.separators_collapsed = sep_collapsed
    IN  IF Is(2, TRUE, TRUE, FALSE, TRUE, FALSE) THEN 29
        ELSE IF Is(2, FALSE, TRUE, FALSE, TRUE, FALSE) THEN 27
        ELSE IF Is(2, TRUE, TRUE, TRUE, FALSE, FALSE) THEN 22
        ELSE IF Is(2, TRUE, TRUE, TRUE, TRUE, TRUE) THEN 19
        ELSE IF Is(2, FALSE, TRUE, TRUE, TRUE, TRUE) THEN 17
        ELSE IF Is(1, FALSE, FALSE, TRUE, TRUE, FALSE) THEN 9
        ELSE IF Is(1, FALSE, FALSE, TRUE, FALSE, TRUE) THEN 9
        ELSE GridSize(c, c.cell_h)

\* LayoutConfig::grid_height: the overrides in the order of the source, then grid_size
GridHeight(config) ==
    LET c == config
        Is(cell_h, outer, border, collapsed, visible, sep_collapsed) ==
            /\ c.cell_h = cell_h
            /\ c.outer_border = outer
            /\ c.cell_border = border
            /\ c.cell_collapsed = collapsed
            /\ c.separators_visible = visible
            /\ c.separators_collapsed = sep_collapsed
    IN  IF Is(2, TRUE, TRUE, FALSE, TRUE, FALSE) THEN 29
        ELSE IF Is(2, FALSE, TRUE, FALSE, TRUE, FALSE) THEN 27
        ELSE IF Is(2, TRUE, TRUE, TRUE, FALSE, FALSE) THEN 21
        ELSE IF Is(2, TRUE, TRUE, TRUE, TRUE, TRUE) THEN 19
        ELSE IF Is(2, FALSE, TRUE, TRUE, TRUE, TRUE) THEN 17
        ELSE IF Is(1, FALSE, FALSE, TRUE, TRUE, FALSE) THEN 9
        ELSE IF Is(1, FALSE, FALSE, TRUE, FALSE, TRUE) THEN 9
        ELSE GridSize(c, c.cell_h)

\* the fit check of render_sudoku_grid with the width left out
TooSmallHeightOnly(config, area) ==
    GridHeight(config) > area.height

\* the test of render_sudoku_grid that sends it to the 'too small' notice
TooSmall(config, area) ==
    GridHeight(config) > area.height \/ GridWidth(config) > area.width

-----------------------------------------------------------------------------
(* src/src/ratatui.rs: ui and render_sudoku_grid *)

U16Mod == 65536

\* a u16 result in a build that does not check overflow: it wraps
WrapU16(v) == v % U16Mod

\* u16::saturating_sub
SaturatingSub(a, b) == IF a > b THEN a - b ELSE 0

\* SudokuValue::text, VALUES[value]
Text(value) == <<" ", "1", "2", "3", "4", "5", "6", "7", "8", "9">>[value + 1]

\* the header shown as early as the footer, from height 10 on
HeaderLengthEarly(size) ==
    LET show_header == size.height > 9
        header_borders == size.height > 14
    IN  IF show_header THEN (IF header_borders THEN 3 ELSE 1) ELSE 0

\* ui: the rows of the header (1 without borders, 3 with, 0 when it is not shown)
HeaderLength(size) ==
    LET show_header == size.height > 12
        header_borders == size.height > 14
    IN  IF show_header THEN (IF header_borders THEN 3 ELSE 1) ELSE 0

\* the footer with its borders only from height 21 on
FooterLengthLateBorders(size) ==
    LET show_instructions == size.height > 9
        footer_borders == size.height > 20
    IN  IF show_instructions THEN (IF footer_borders THEN 3 ELSE 1) ELSE 0

\* ui: the rows of the footer (the instructions)
FooterLength(size) ==
    LET show_instructions == size.height > 9
        footer_borders == size.height > 16
    IN  IF show_instructions THEN (IF footer_borders THEN 3 ELSE 1) ELSE 0

\* ui: Layout::split over [Length(header)], Min(0), [Length(footer)]. The lengths add
\* up to at most 6 and are asked for only from height 10 on, so they are always granted
\* and the grid takes the rest.
GridArea(size) ==
    [x |-> 0,
     y |-> HeaderLength(size),
     width |-> size.width,
     height |-> SaturatingSub(size.height, HeaderLength(size) + FooterLength(size))]

\* ui: which of the instruction texts the footer shows, 1 (the shortest) to 11
Instructions(width) ==
    IF width < 9 THEN 1
    ELSE IF width < 12 THEN 2
    ELSE IF width < 14 THEN 3
    ELSE IF width < 16 THEN 4
    ELSE IF width < 17 THEN 5
    ELSE IF width < 19 THEN 6
    ELSE IF width < 24 THEN 7
    ELSE IF width < 26 THEN 8
    ELSE IF width < 56 THEN 9
    ELSE IF width < 76 THEN 10
    ELSE 11

\* get_correction: <<size correction, position correction>>
GetCorrection(config, x) ==
    IF ~config.outer_border /\ config.separators_visible
    THEN IF config.separators_collapsed
         THEN IF x = 0 THEN <<1, 0>>
              ELSE IF x = 8 THEN <<1, 1>>
              ELSE <<0, 1>>
         ELSE <<0, 1>>
    ELSE <<0, 0>>

\* the vertical stride without the row between cells that are not collapsed
CellStrideYNoGap(config) == config.cell_h

\* render_sudoku_grid: cell_stride_y
CellStrideY(config) ==
    config.cell_h + (IF config.cell_collapsed THEN 0 ELSE 1)

\* the horizontal stride without the column that collapsed cells with borders share
CellStrideXNoShare(config) ==
    config.cell_w + (IF config.cell_collapsed THEN 0 ELSE 1)

\* the horizontal stride with the shared column taken off for all collapsed cells,
\* with or without borders
CellStrideXAlwaysShare(config) ==
    config.cell_w + (IF config.cell_collapsed THEN 0 ELSE 1)
        - (IF config.cell_collapsed THEN 1 ELSE 0)

\* render_sudoku_grid: cell_stride_x
CellStrideX(config) ==
    config.cell_w + (IF config.cell_collapsed THEN 0 ELSE 1)
        - (IF config.cell_border /\ config.cell_collapsed THEN 1 ELSE 0)

\* the stride of the separators the wrong way round: 1 when they are collapsed
SeparatorStrideInverted(config) == IF config.separators_collapsed THEN 1 ELSE 0

\* render_sudoku_grid: separator_stride
SeparatorStride(config) == IF config.separators_collapsed THEN 0 ELSE 1

\* render_sudoku_grid: inner, the centred rectangle of the grid
Inner(config, area) ==
    [x |-> area.x + SaturatingSub(area.width, GridWidth(config)) \div 2,
     y |-> area.y + SaturatingSub(area.height, GridHeight(config)) \div 2,
     width |-> GridWidth(config),
     height |-> GridHeight(config)]

\* render_sudoku_grid: cell_x (cell_y) as an integer, below zero where the u16
\* subtraction of the correction underflows
CellPos(config, origin, i, stride) ==
    origin + i * stride + (i \div 3) * SeparatorStride(config) - GetCorrection(config, i)[2]

\* render_sudoku_grid: border_left and border_top of the cell with index i in its axis
BorderLow(config, i) ==
    IF config.cell_border
    THEN IF i = 0 /\ ~config.outer_border /\ config.separators_collapsed
         THEN "None"
         ELSE IF i % 3 = 0 /\ config.separators_visible /\ config.separators_collapsed
              THEN "Double"
              ELSE "Plain"
    ELSE "None"

\* render_sudoku_grid: border_right and border_bottom
BorderHigh(config, i) ==
    IF config.cell_border
    THEN IF i = 8 /\ ~config.outer_border /\ config.separators_collapsed
         THEN "None"
         ELSE IF i % 3 = 2 /\ config.separators_visible /\ config.separators_collapsed
              THEN "Double"
              ELSE "Plain"
    ELSE "None"

\* render_sudoku_grid: continued_left and continued_up
ContinuedLow(config, i) ==
    i > 0 /\ config.cell_collapsed /\ (config.separators_collapsed \/ i % 3 # 0)

\* render_sudoku_grid: continued_right and continued_down
ContinuedHigh(config, i) ==
    i < 8 /\ config.cell_collapsed /\ (config.separators_collapsed \/ i % 3 # 2)

\* render_sudoku_grid: the State of a Colour
StateOf(colour) ==
    IF colour = "Black" THEN "Neutral" ELSE IF colour = "Red" THEN "Bad" ELSE "Good"

\* the derived order of State: Neutral < Good < Bad
StateRank(state) ==
    IF state = "Neutral" THEN 0 ELSE IF state = "Good" THEN 1 ELSE 2

\* render_sudoku_grid: the Cell built for (x, y), with skipped set when the loop
\* leaves the cell out because it lies outside the frame
MakeCell(a, config, inner, frame_area, x, y) ==
    LET cell_x == WrapU16(CellPos(config, inner.x, x, CellStrideX(config)))
        cell_y == WrapU16(CellPos(config, inner.y, y, CellStrideY(config)))
    IN  [skipped |-> \/ WrapU16(cell_x + config.cell_w) > frame_area.width
                     \/ WrapU16(cell_y + config.cell_h) > frame_area.height,
         gx |-> x,
         gy |-> y,
         left |-> BorderLow(config, x),
         right |-> BorderHigh(config, x),
         top |-> BorderLow(config, y),
         bottom |-> BorderHigh(config, y),
         continued_left |-> ContinuedLow(config, x),
         continued_right |-> ContinuedHigh(config, x),
         continued_up |-> ContinuedLow(config, y),
         continued_down |-> ContinuedHigh(config, y),
         x |-> cell_x,
         y |-> cell_y,
         w |-> config.cell_w - GetCorrection(config, x)[1],
         h |-> config.cell_h - GetCorrection(config, y)[1],
         state |-> StateOf(Colour(a.model, x, y)),
         selected |-> a.cursor_x = x /\ a.cursor_y = y,
         enabled |-> Get(a.model, x, y).enabled,
         separate |-> ~config.cell_collapsed,
         text |-> Text(Get(a.model, x, y).value)]

\* the key of cells.sort_by: selected, then not enabled, then state
SortKey(cell) ==
    6 * (IF cell.selected THEN 1 ELSE 0) + 3 * (IF cell.enabled THEN 0 ELSE 1)
        + StateRank(cell.state)

\* render_sudoku_grid: the cells pushed by the two loops (y outer, x inner), then sorted
\* by the stable sort_by
SortedCells(a, config, inner, frame_area) ==
    LET all == [i \in 1 .. 81 |->
                    MakeCell(a, config, inner, frame_area, (i - 1) % 9, (i - 1) \div 9)]
        pushed == SelectSeq(all, LAMBDA c : ~c.skipped)
        Part(k) == SelectSeq(pushed, LAMBDA c : SortKey(c) = k)
    IN  Part(0) \o Part(1) \o Part(2) \o Part(3) \o Part(4) \o Part(5)
        \o Part(6) \o Part(7) \o Part(8) \o Part(9) \o Part(10) \o Part(11)

\* Cell::has_borders
HasBorders(cell) ==
    cell.left # "None" \/ cell.right # "None" \/ cell.top # "None" \/ cell.bottom # "None"

\* render_cell: the rectangle of the cell, one row higher when it has a border
CellArea(cell) ==
    [x |-> cell.x,
     y |-> cell.y,
     width |-> cell.w,
     height |-> cell.h + (IF HasBorders(cell) THEN 1 ELSE 0)]

\* render_cell: it paints unless the rectangle is empty
Rendered(cell) == CellArea(cell).width # 0 /\ CellArea(cell).height # 0

\* render_separators: the rectangle and the borders of the block (x, y) of the 3x3
\* separator blocks; the position is an integer, below zero where the u16 subtraction
\* underflows
SeparatorBlock(config, inner, x, y) ==
    LET cell_stride_x == CellStrideX(config)
        cell_stride_y == CellStrideY(config)
        borders ==
            {"LEFT", "RIGHT", "TOP", "BOTTOM"}
            \ (IF ~config.outer_border
               THEN (IF x = 0 THEN {"LEFT"} ELSE {}) \cup (IF x = 2 THEN {"RIGHT"} ELSE {})
                    \cup (IF y = 0 THEN {"TOP"} ELSE {}) \cup (IF y = 2 THEN {"BOTTOM"} ELSE {})
               ELSE {})
        offset == IF config.outer_border
                  THEN (IF ~config.cell_collapsed THEN 1 ELSE 0)
                  ELSE 1
    IN  IF config.outer_border /\ ~config.cell_collapsed /\ ~config.separators_collapsed
        THEN LET stride_x == 3 * cell_stride_x + 1
                 stride_y == 3 * cell_stride_y + 1
             IN  [bx |-> x,
                  by |-> y,
                  borders |-> borders,
                  width |-> IF x = 0 THEN 3 * cell_stride_x + 3 ELSE 3 * cell_stride_x + 2,
                  height |-> 3 * cell_stride_y + 2,
                  x |-> inner.x + x * stride_x - 1 - (IF x = 0 THEN 1 ELSE 0),
                  y |-> inner.y + y * stride_y - 1]
        ELSE LET stride_x == 3 * cell_stride_x
                 stride_y == 3 * cell_stride_y
             IN  [bx |-> x,
                  by |-> y,
                  borders |-> borders,
                  width |-> 3 * cell_stride_x + 1,
                  height |-> 3 * cell_stride_y + 1 + (IF y = 1 THEN 1 ELSE 0),
                  x |-> inner.x + x * stride_x - offset,
                  y |-> inner.y + y * stride_y - offset + (IF y = 2 THEN 1 ELSE 0)]

\* render_separators: the nine blocks in the order of the loops (y outer, x inner), or
\* nothing when the separators are collapsed or not visible
Separators(config, inner) ==
    IF ~config.separators_collapsed /\ config.separators_visible
    THEN [i \in 1 .. 9 |-> SeparatorBlock(config, inner, (i - 1) % 3, (i - 1) \div 3)]
    ELSE << >>

\* a u16 subtraction of render_sudoku_grid or render_separators goes below zero. In
\* render_separators only the subtractions can take a position below zero, and the
\* + 1 of the last row of blocks is added where none can, so the sign of the position
\* tells.
Underflows(config, inner) ==
    \/ \E i \in Idx : CellPos(config, inner.x, i, CellStrideX(config)) < 0
    \/ \E i \in Idx : CellPos(config, inner.y, i, CellStrideY(config)) < 0
    \/ \E i \in 1 .. Len(Separators(config, inner)) :
          Separators(config, inner)[i].x < 0 \/ Separators(config, inner)[i].y < 0

\* the separator blocks as the u16 values handed to render_widget
WrappedSeparators(config, inner) ==
    [i \in 1 .. Len(Separators(config, inner)) |->
        [Separators(config, inner)[i] EXCEPT !.x = WrapU16(@), !.y = WrapU16(@)]]

\* render_sudoku_grid: what it paints. A build that checks overflow panics where a
\* subtraction underflows; a build that does not wraps the value.
RenderSudokuGrid(a, area, frame_area, config, overflow_checks) ==
    LET inner == Inner(config, area)
        nothing == [notice |-> FALSE, panic |-> FALSE, inner |-> inner,
                    cells |-> << >>, separators |-> << >>, debug_text |-> FALSE]
    IN  IF TooSmall(config, area)
        THEN [nothing EXCEPT !.notice = TRUE]
        ELSE IF overflow_checks /\ Underflows(config, inner)
        THEN [nothing EXCEPT !.panic = TRUE]
        ELSE [nothing EXCEPT
                 !.cells = SortedCells(a, config, inner, frame_area),
                 !.separators = WrappedSeparators(config, inner),
                 !.debug_text = a.debug]

\* ui: the frame painted for the App a on a terminal of the given size
Ui(a, size, overflow_checks) ==
    LET grid_area == GridArea(size)
        config == FromSize(grid_area.width, grid_area.height)
        frame_area == [x |-> 0, y |-> 0, width |-> size.width, height |-> size.height]
    IN  [kind |-> "frame",
         size |-> size,
         header |-> [rows |-> HeaderLength(size), borders |-> size.height > 14],
         footer |-> [rows |-> FooterLength(size), borders |-> size.height > 16,
                     instructions |-> Instructions(size.width)],
         grid_area |-> grid_area,
         config |-> config,
         grid |-> RenderSudokuGrid(a, grid_area, frame_area, config, overflow_checks)]

\* a draw that paints over the previous frame in place of an empty buffer: the debug
\* text of the previous frame stays on the screen
DrawOver(a, size, overflow_checks, previous) ==
    LET frame == Ui(a, size, overflow_checks)
    IN  IF previous.kind = "frame"
        THEN [frame EXCEPT !.grid.debug_text = @ \/ previous.grid.debug_text]
        ELSE frame

\* run_app: terminal.draw(|f| ui(f, app)). The frame starts from an empty buffer, so
\* nothing of the previous frame is left in it.
Draw(a, size, overflow_checks, previous) == Ui(a, size, overflow_checks)

-----------------------------------------------------------------------------
(* The frames of run_app over the sizes of the terminal *)

\* the largest terminal of the model; every threshold of ui and of from_size lies below
MaxWidth == 64
MaxHeight == 38

Sizes == [width : 1 .. MaxWidth, height : 1 .. MaxHeight]

InitLayout ==
    /\ app = AppNew(Example)
    /\ created = Example
    /\ steps = 0
    /\ twin = app
    /\ canvas \in Sizes
    /\ painted = NoPaint
    /\ checks \in BOOLEAN
    /\ term = NoTerm

\* a panic inside terminal.draw ends run_app
Running == painted.kind = "frame" /\ ~painted.grid.panic

\* run_app: the first terminal.draw
FirstDraw ==
    /\ painted.kind = "none"
    /\ painted' = Draw(app, canvas, checks, painted)
    /\ UNCHANGED <<app, created, steps, twin, canvas, checks, term>>

\* run_app: the terminal is resized by one column and the next iteration draws
ResizeWidth(d) ==
    /\ Running
    /\ canvas.width + d \in 1 .. MaxWidth
    /\ canvas' = [canvas EXCEPT !.width = canvas.width + d]
    /\ painted' = Draw(app, canvas', checks, painted)
    /\ UNCHANGED <<app, created, steps, twin, checks, term>>

\* run_app: the terminal is resized by one row and the next iteration draws
ResizeHeight(d) ==
    /\ Running
    /\ canvas.height + d \in 1 .. MaxHeight
    /\ canvas' = [canvas EXCEPT !.height = canvas.height + d]
    /\ painted' = Draw(app, canvas', checks, painted)
    /\ UNCHANGED <<app, created, steps, twin, checks, term>>

NextLayout ==
    \/ FirstDraw
    \/ \E d \in {-1, 1} : ResizeWidth(d)
    \/ \E d \in {-1, 1} : ResizeHeight(d)

SpecLayout == InitLayout /\ [][NextLayout]_vars

-----------------------------------------------------------------------------
(* Properties of the layout, over the frames of SpecLayout *)

\* a frame has been drawn
Framed == painted.kind = "frame"

\* the grid band of the frame is one that from_size is meant to serve
BandFromNine ==
    /\ Framed
    /\ painted.grid_area.width >= 9
    /\ painted.grid_area.height >= 9

\* the footprint of the grid passes the fit check of render_sudoku_grid
Fits ==
    /\ painted.grid.inner.width <= painted.grid_area.width
    /\ painted.grid.inner.height <= painted.grid_area.height

\* C3: for every grid band of width W >= 9 and height H >= 9 the footprint of the
\* layout from_size(W, H) is at most W wide: grid_width() <= W
C3_GridWidthFits ==
    BandFromNine => painted.grid.inner.width <= painted.grid_area.width

C5_TooSmallNotice ==
    Framed =>
        /\ ~Fits =>
              /\ painted.grid.notice
              /\ painted.grid.cells = << >>
              /\ painted.grid.separators = << >>
        /\ (painted.grid_area.width < 9 \/ painted.grid_area.height < 9) =>
              painted.grid.notice
        /\ painted.grid.notice =>
              painted.grid.cells = << >> /\ painted.grid.separators = << >>
        /\ Len(painted.grid.cells) \in {0, 81}

\* a frame with the notice and no cell on a band narrower than 9 that is high enough
\* for the footprint but not wide enough
C5_Witness ==
    /\ Framed
    /\ painted.grid.notice
    /\ painted.grid.cells = << >>
    /\ painted.grid_area.width < painted.grid.inner.width
    /\ painted.grid_area.height >= painted.grid.inner.height
    /\ painted.grid_area.width < 9
    /\ painted.grid_area.height >= 9

\* C6: a grid that is displayed on a band of at least 9 x 9 never turns into the
\* 'too small' notice when the band grows: from a frame that fits, a resize that
\* makes the band no narrower and no lower leads to a frame that fits
C6_FitIsMonotone ==
    [][(/\ BandFromNine
        /\ Fits
        /\ painted'.kind = "frame"
        /\ painted'.grid_area.width >= painted.grid_area.width
        /\ painted'.grid_area.height >= painted.grid_area.height)
       => ~painted'.grid.notice]_vars

-----------------------------------------------------------------------------
(* Two runs of run_app side by side, on the same puzzle and the same terminal size:
   app with its frame painted.first, twin with its frame painted.second *)

\* the keys handled in one behaviour of the two runs together
MaxTwinSteps == 2

\* a terminal that shows the grid, and one on which the position of the first cell
\* underflows
TwinSizes == {[width |-> 40, height |-> 20], [width |-> 11, height |-> 12]}

InitTwin ==
    /\ created = Example
    /\ app = AppNew(created)
    /\ twin = AppNew(created)
    /\ steps = 0
    /\ canvas \in TwinSizes
    /\ painted = [kind |-> "pair", first |-> NoPaint, second |-> NoPaint]
    /\ checks \in BOOLEAN
    /\ term = NoTerm

\* run_app has drawn a frame and goes on: the draw did not panic and no key made it
\* return
Looping(a, frame) == frame.kind = "frame" /\ ~frame.grid.panic /\ ~a.should_quit

\* run_app of the first run: the first terminal.draw
AppDraw ==
    /\ painted.first.kind = "none"
    /\ painted' = [painted EXCEPT !.first = Draw(app, canvas, checks, @)]
    /\ UNCHANGED <<app, created, steps, twin, canvas, checks, term>>

\* run_app of the first run: a key is handled, and unless it quits the next iteration
\* draws
AppKey(key) ==
    /\ steps < MaxTwinSteps
    /\ Looping(app, painted.first)
    /\ app' = HandleKey(app, key)
    /\ steps' = steps + 1
    /\ painted' = IF app'.should_quit
                  THEN painted
                  ELSE [painted EXCEPT !.first = Draw(app', canvas, checks, @)]
    /\ UNCHANGED <<created, twin, canvas, checks, term>>

\* run_app of the second run: the first terminal.draw
TwinDraw ==
    /\ painted.second.kind = "none"
    /\ painted' = [painted EXCEPT !.second = Draw(twin, canvas, checks, @)]
    /\ UNCHANGED <<app, created, steps, twin, canvas, checks, term>>

\* run_app of the second run: a key is handled, and unless it quits the next
\* iteration draws
TwinKey(key) ==
    /\ steps < MaxTwinSteps
    /\ Looping(twin, painted.second)
    /\ twin' = HandleKey(twin, key)
    /\ steps' = steps + 1
    /\ painted' = IF twin'.should_quit
                  THEN painted
                  ELSE [painted EXCEPT !.second = Draw(twin', canvas, checks, @)]
    /\ UNCHANGED <<app, created, canvas, checks, term>>

NextTwin ==
    \/ AppDraw
    \/ \E key \in Keys : AppKey(key)
    \/ TwinDraw
    \/ \E key \in Keys : TwinKey(key)

SpecTwin == InitTwin /\ [][NextTwin]_vars

\* both runs have drawn
BothDrawn ==
    /\ painted.kind = "pair"
    /\ painted.first.kind = "frame"
    /\ painted.second.kind = "frame"

\* the two runs agree on the puzzle and on the cursor
SameModelAndCursor ==
    /\ app.model = twin.model
    /\ app.cursor_x = twin.cursor_x
    /\ app.cursor_y = twin.cursor_y

-----------------------------------------------------------------------------
(* src/src/ratatui.rs: main, TerminalGuard::new, run_app and the Drop of TerminalGuard.
   term.pc is the position of main, term.raw and term.alt are the mode of the
   terminal, term.guard tells that the TerminalGuard exists, term.result is what
   main returned, term.tty is the answer of is_tty. *)

\* the keys handled in one run of main
MaxMainSteps == 2

\* a terminal that shows the grid, and one on which the position of the first cell
\* underflows, so that a build that checks overflow panics inside terminal.draw
MainSizes == {[width |-> 40, height |-> 20], [width |-> 11, height |-> 12]}

InitMain ==
    /\ created \in {Example, From(ZeroArray)}
    /\ app = AppNew(created)
    /\ twin = app
    /\ steps = 0
    /\ canvas \in MainSizes
    /\ painted = NoPaint
    /\ checks \in BOOLEAN
    /\ term = [pc |-> "is_tty", raw |-> FALSE, alt |-> FALSE, guard |-> FALSE,
               result |-> "none", tty |-> "unknown"]

\* Drop for TerminalGuard: disable_raw_mode, LeaveAlternateScreen, show_cursor. The
\* results are ignored; the calls are taken to do what they are asked.
Drop(t) == [t EXCEPT !.raw = FALSE, !.alt = FALSE, !.guard = FALSE]

\* main returns: a guard that exists goes out of scope first
Return(t, result) ==
    [(IF t.guard THEN Drop(t) ELSE t) EXCEPT !.pc = "returned", !.result = result]

\* main without the early return: the setup goes on whatever is_tty answers
IsTtyIgnored(is_tty) ==
    /\ term.pc = "is_tty"
    /\ term' = [term EXCEPT !.pc = "enable_raw_mode",
                            !.tty = IF is_tty THEN "yes" ELSE "no"]
    /\ UNCHANGED <<app, created, steps, twin, canvas, painted, checks>>

\* main: the check that stdout is a terminal; if it is not, main returns
\* Err(io::Error::new(io::ErrorKind::Unsupported, "Not running in a TTY"))
IsTty(is_tty) ==
    /\ term.pc = "is_tty"
    /\ term' = IF is_tty
               THEN [term EXCEPT !.pc = "enable_raw_mode", !.tty = "yes"]
               ELSE [Return(term, "Unsupported") EXCEPT !.tty = "no"]
    /\ UNCHANGED <<app, created, steps, twin, canvas, painted, checks>>

\* TerminalGuard::new: enable_raw_mode()?
EnableRawMode(ok) ==
    /\ term.pc = "enable_raw_mode"
    /\ term' = IF ok
               THEN [term EXCEPT !.raw = TRUE, !.pc = "enter_alternate_screen"]
               ELSE Return(term, "Err")
    /\ UNCHANGED <<app, created, steps, twin, canvas, painted, checks>>

\* TerminalGuard::new: execute!(stdout, EnterAlternateScreen)?
EnterAlternateScreen(ok) ==
    /\ term.pc = "enter_alternate_screen"
    /\ term' = IF ok
               THEN [term EXCEPT !.alt = TRUE, !.pc = "terminal_new"]
               ELSE Return(term, "Err")
    /\ UNCHANGED <<app, created, steps, twin, canvas, painted, checks>>

\* TerminalGuard::new: Terminal::new(backend)?, and with it the guard; then App::new
TerminalNew(ok) ==
    /\ term.pc = "terminal_new"
    /\ term' = IF ok
               THEN [term EXCEPT !.guard = TRUE, !.pc = "draw"]
               ELSE Return(term, "Err")
    /\ UNCHANGED <<app, created, steps, twin, canvas, painted, checks>>

\* run_app: terminal.draw(|f| ui(f, app))?. An error ends run_app, main prints it and
\* returns Ok(()); a panic inside ui unwinds through the guard and main does not return.
DrawFrame(ok) ==
    /\ term.pc = "draw"
    /\ IF ~ok
       THEN /\ term' = Return(term, "Ok")
            /\ painted' = painted
       ELSE /\ painted' = Draw(app, canvas, checks, painted)
            /\ term' = IF painted'.grid.panic
                       THEN [Drop(term) EXCEPT !.pc = "panicked"]
                       ELSE [term EXCEPT !.pc = "poll"]
    /\ UNCHANGED <<app, created, steps, twin, canvas, checks>>

\* run_app: event::poll(100 ms)? or event::read()? fails
PollFails ==
    /\ term.pc = "poll"
    /\ term' = Return(term, "Ok")
    /\ UNCHANGED <<app, created, steps, twin, canvas, painted, checks>>

\* run_app: no event within 100 ms, or an event that is no key press
PollNothing ==
    /\ term.pc = "poll"
    /\ term' = [term EXCEPT !.pc = "draw"]
    /\ UNCHANGED <<app, created, steps, twin, canvas, painted, checks>>

\* run_app: a key press is read and handled, then the test of should_quit
PollKey(key) ==
    /\ term.pc = "poll"
    /\ steps < MaxMainSteps
    /\ app' = HandleKey(app, key)
    /\ steps' = steps + 1
    /\ term' = IF app'.should_quit
               THEN Return(term, "Ok")
               ELSE [term EXCEPT !.pc = "draw"]
    /\ UNCHANGED <<created, twin, canvas, painted, checks>>

NextMain ==
    \/ \E is_tty \in BOOLEAN : IsTty(is_tty)
    \/ \E ok \in BOOLEAN : EnableRawMode(ok)
    \/ \E ok \in BOOLEAN : EnterAlternateScreen(ok)
    \/ \E ok \in BOOLEAN : TerminalNew(ok)
    \/ \E ok \in BOOLEAN : DrawFrame(ok)
    \/ PollFails
    \/ PollNothing
    \/ \E key \in Keys : PollKey(key)

SpecMain == InitMain /\ [][NextMain]_vars

\* C2: on every path by which main returns after raw mode has been enabled (a normal
\* quit, an I/O error in the render loop, a failure of a later setup step) raw mode
\* is disabled and the alternate screen is left before main returns
C2_TerminalRestored ==
    term.pc = "returned" => (~term.raw /\ ~term.alt)

-----------------------------------------------------------------------------
(* Properties of the frame allocation of ui, over the frames of SpecLayout *)

\* the rows and borders of header and footer and the rows of the grid band
Allocation ==
    <<painted.header.rows, painted.header.rows > 0 /\ painted.header.borders,
      painted.footer.rows, painted.footer.rows > 0 /\ painted.footer.borders,
      painted.grid_area.height>>

\* C11: the frame allocation is this function of the canvas height h: h <= 9 no
\* header, no footer; 10..12 no header, 1-row footer; 13..14 1-row header and 1-row
\* footer without borders; 15..16 3-row bordered header, 1-row footer; h >= 17 3-row
\* bordered header and footer; the grid band gets h minus the rows of both. So a
\* header implies a footer and a bordered footer implies a bordered header.
C11_FrameAllocation ==
    Framed =>
        LET h == painted.size.height
        IN  /\ h <= 9 => Allocation = <<0, FALSE, 0, FALSE, h>>
            /\ (10 <= h /\ h <= 12) => Allocation = <<0, FALSE, 1, FALSE, h - 1>>
            /\ (13 <= h /\ h <= 14) => Allocation = <<1, FALSE, 1, FALSE, h - 2>>
            /\ (15 <= h /\ h <= 16) => Allocation = <<3, TRUE, 1, FALSE, h - 4>>
            /\ h >= 17 => Allocation = <<3, TRUE, 3, TRUE, h - 6>>
            /\ painted.grid_area.y = painted.header.rows
            /\ painted.grid_area.width = painted.size.width
            /\ painted.header.rows > 0 => painted.footer.rows > 0
            /\ Allocation[4] => Allocation[2]

\* a frame 15 rows high: the header has its borders and the footer has none yet
C11_Witness ==
    /\ Framed
    /\ painted.size.height = 15
    /\ Allocation = <<3, TRUE, 1, FALSE, 11>>

\* the frame is the one of a canvas 40 columns wide and 20 rows high
Canvas40x20 == Framed /\ painted.size = [width |-> 40, height |-> 20]

\* C12: on a canvas of 40 x 20 the header has no borders and takes 1 row, the footer
\* has no borders and takes 1 row, and the grid band gets the other 18 rows
C12_Canvas40x20Unbordered ==
    Canvas40x20 => Allocation = <<1, FALSE, 1, FALSE, 18>>

\* C12 as amended: on a canvas of 40 x 20 the header has borders and takes 3 rows, the
\* footer has borders and takes 3 rows, and the grid band gets the other 14 rows
C12_Canvas40x20Bordered ==
    Canvas40x20 => Allocation = <<3, TRUE, 3, TRUE, 14>>

\* the frame of a canvas of 40 x 20 with its 14 rows of grid band below the header
C12_Witness ==
    /\ Canvas40x20
    /\ painted.grid_area = [x |-> 0, y |-> 3, width |-> 40, height |-> 14]
    /\ painted.footer.rows = 3

-----------------------------------------------------------------------------
(* Properties of the cells of a frame, over the frames of SpecLayout *)

\* the cells of the frame handed to render_cell for the coordinate (x, y)
CellsAt(x, y) ==
    {i \in 1 .. Len(painted.grid.cells) :
        painted.grid.cells[i].gx = x /\ painted.grid.cells[i].gy = y}

\* the frame is the one of a canvas of 9 x 9
Canvas9x9 == Framed /\ painted.size = [width |-> 9, height |-> 9]

\* C13: on a canvas of exactly 9 x 9 there is no header and no footer, the layout has
\* 1 x 1 cells without cell borders, without outer border and without visible
\* separators, the footprint is 9 x 9, and each of the 81 cells (x, y) is painted as
\* a 1 x 1 rectangle at canvas position (x, y)
C13_Canvas9x9Minimal ==
    Canvas9x9 =>
        /\ painted.header.rows = 0
        /\ painted.footer.rows = 0
        /\ painted.config.cell_w = 1
        /\ painted.config.cell_h = 1
        /\ ~painted.config.cell_border
        /\ ~painted.config.outer_border
        /\ ~painted.config.separators_visible
        /\ painted.grid.inner.width = 9
        /\ painted.grid.inner.height = 9
        /\ Len(painted.grid.cells) = 81
        /\ \A x \in Idx : \A y \in Idx :
              /\ Cardinality(CellsAt(x, y)) = 1
              /\ \A i \in CellsAt(x, y) :
                    /\ Rendered(painted.grid.cells[i])
                    /\ CellArea(painted.grid.cells[i]) =
                          [x |-> x, y |-> y, width |-> 1, height |-> 1]

\* the frame of a canvas of 9 x 9 with the grid in it: the last cell is at (8, 8)
C13_Witness ==
    /\ Canvas9x9
    /\ ~painted.grid.notice
    /\ \E i \in CellsAt(8, 8) :
          CellArea(painted.grid.cells[i]) = [x |-> 8, y |-> 8, width |-> 1, height |-> 1]

-----------------------------------------------------------------------------
(* LayoutConfig::from_size with grid_width and grid_height over the grid areas, as the
   tests from_size_17 and from_size_21 call them *)

\* the largest grid area of the model; the tests use the width 129
MaxAreaWidth == 130
MaxAreaHeight == 40

Areas == [width : 1 .. MaxAreaWidth, height : 1 .. MaxAreaHeight]

InitConfig ==
    /\ created = Example
    /\ app = AppNew(created)
    /\ twin = app
    /\ steps = 0
    /\ canvas \in Areas
    /\ painted = NoPaint
    /\ checks = FALSE
    /\ term = NoTerm

\* LayoutConfig::from_size(width, height), then grid_width() and grid_height()
FromSizeCall ==
    /\ painted.kind = "none"
    /\ painted' = [kind |-> "config",
                   area |-> canvas,
                   config |-> FromSize(canvas.width, canvas.height),
                   grid_width |-> GridWidth(FromSize(canvas.width, canvas.height)),
                   grid_height |-> GridHeight(FromSize(canvas.width, canvas.height))]
    /\ UNCHANGED <<app, created, steps, twin, canvas, checks, term>>

NextConfig == FromSizeCall

SpecConfig == InitConfig /\ [][NextConfig]_vars

\* from_size has been called
Configured == painted.kind = "config"

\* C14: for a grid area of height 17 and width 129, and for every width W >= 9 at
\* height 17, from_size(W, 17).grid_height() is exactly 17
C14_GridHeight17 ==
    (Configured /\ painted.area.height = 17 /\ painted.area.width >= 9)
        => painted.grid_height = 17

\* the call of the test from_size_17: from_size(129, 17) with grid_height() = 17
C14_Witness ==
    /\ Configured
    /\ painted.area = [width |-> 129, height |-> 17]
    /\ painted.grid_height = 17

\* C15: for a grid area of width 129 and height 21, from_size(129, 21).grid_height()
\* is exactly 22
C15_GridHeight22 ==
    (Configured /\ painted.area = [width |-> 129, height |-> 21])
        => painted.grid_height = 22

\* C19: for a grid area of 17 x 17 from_size selects cells with borders that are
\* collapsed, with visible collapsed separators and no outer border; for 19 x 19 the
\* same with an outer border in addition
C19_Config17And19 ==
    /\ (Configured /\ painted.area = [width |-> 17, height |-> 17]) =>
          /\ painted.config.cell_border
          /\ painted.config.cell_collapsed
          /\ painted.config.separators_visible
          /\ painted.config.separators_collapsed
          /\ ~painted.config.outer_border
    /\ (Configured /\ painted.area = [width |-> 19, height |-> 19]) =>
          /\ painted.config.cell_border
          /\ painted.config.cell_collapsed
          /\ painted.config.separators_visible
          /\ painted.config.separators_collapsed
          /\ painted.config.outer_border


\* the frame shows the grid: the footprint passed the fit check
GridShown == Framed /\ Fits

\* render_sudoku_grid: the cell (x, y) lies outside the frame, so the loop drops it
Dropped(x, y) ==
    LET cell == MakeCell(app, painted.config, painted.grid.inner,
                         [x |-> 0, y |-> 0, width |-> painted.size.width,
                          height |-> painted.size.height], x, y)
    IN  cell.skipped

\* C16: in every frame whose layout passes the fit check each of the 81 coordinates
\* (x, y) has exactly one painted cell rectangle, of non-zero width and height, unless
\* the cell is dropped because it lies outside the canvas
C16_OneRectanglePerCell ==
    GridShown =>
        \A x \in Idx : \A y \in Idx :
            \/ Dropped(x, y) /\ CellsAt(x, y) = {}
            \/ /\ Cardinality(CellsAt(x, y)) = 1
               /\ \A i \in CellsAt(x, y) : Rendered(painted.grid.cells[i])


\* the larger and the smaller of two numbers
Max(a, b) == IF a > b THEN a ELSE b
Min(a, b) == IF a < b THEN a ELSE b

\* the columns, and the rows, that two rectangles have in common
SharedColumns(r, s) == Max(0, Min(r.x + r.width, s.x + s.width) - Max(r.x, s.x))
SharedRows(r, s) == Max(0, Min(r.y + r.height, s.y + s.height) - Max(r.y, s.y))

\* two rectangles have a character cell in common
Overlap(r, s) == SharedColumns(r, s) > 0 /\ SharedRows(r, s) > 0

\* C17: in every frame whose layout has cell_collapsed = false and passes the fit
\* check, the painted rectangles (x, y, w, h plus one row when the cell has a border)
\* of any two distinct cells are disjoint
C17_SeparateCellsDisjoint ==
    (GridShown /\ ~painted.config.cell_collapsed) =>
        \A i \in 1 .. Len(painted.grid.cells) : \A j \in 1 .. Len(painted.grid.cells) :
            i < j => ~Overlap(CellArea(painted.grid.cells[i]),
                              CellArea(painted.grid.cells[j]))

\* a frame with all 81 cells of a layout that is not collapsed, the cells with borders
C17_Witness ==
    /\ GridShown
    /\ ~painted.config.cell_collapsed
    /\ Len(painted.grid.cells) = 81
    /\ \A i \in 1 .. 81 :
          HasBorders(painted.grid.cells[i]) /\ Rendered(painted.grid.cells[i])


\* the rectangle painted for the coordinate (x, y), for a coordinate that has a cell
AreaAt(x, y) == CellArea(painted.grid.cells[CHOOSE i \in CellsAt(x, y) : TRUE])

\* both coordinates have a cell in the frame
BothPainted(x, y, u, v) == CellsAt(x, y) # {} /\ CellsAt(u, v) # {}

\* C18: in every frame whose layout has cell_collapsed = true and passes the fit check
\* the rectangles of two horizontally adjacent cells (x, y) and (x + 1, y) share
\* exactly one column, and those of two vertically adjacent cells (x, y) and
\* (x, y + 1) share exactly one row
C18_CollapsedCellsShareOne ==
    (GridShown /\ painted.config.cell_collapsed) =>
        /\ \A x \in 0 .. 7 : \A y \in Idx :
              BothPainted(x, y, x + 1, y) =>
                  SharedColumns(AreaAt(x, y), AreaAt(x + 1, y)) = 1
        /\ \A x \in Idx : \A y \in 0 .. 7 :
              BothPainted(x, y, x, y + 1) =>
                  SharedRows(AreaAt(x, y), AreaAt(x, y + 1)) = 1

\* the index i and the index i + 1 lie in the same block of three, or the separators
\* between the blocks are collapsed
Joined(i) == painted.config.separators_collapsed \/ i % 3 # 2

\* C18 as amended: in every frame whose layout has cell_collapsed = true and
\* cell_border = true and passes the fit check, the rectangles of two horizontally
\* adjacent cells share exactly one column and those of two vertically adjacent cells
\* share exactly one row, where the two cells lie in the same 3 x 3 block or the
\* separators are collapsed
C18_BorderedCollapsedCellsShareOne ==
    (GridShown /\ painted.config.cell_collapsed /\ painted.config.cell_border) =>
        /\ \A x \in 0 .. 7 : \A y \in Idx :
              (BothPainted(x, y, x + 1, y) /\ Joined(x)) =>
                  SharedColumns(AreaAt(x, y), AreaAt(x + 1, y)) = 1
        /\ \A x \in Idx : \A y \in 0 .. 7 :
              (BothPainted(x, y, x, y + 1) /\ Joined(y)) =>
                  SharedRows(AreaAt(x, y), AreaAt(x, y + 1)) = 1

\* a frame with all 81 cells of a collapsed layout with borders whose separators are
\* not collapsed: the cells (1, 0) and (2, 0) of one block share a column, the cells
\* (2, 0) and (3, 0) of two blocks share none
C18_Witness ==
    /\ GridShown
    /\ painted.config.cell_collapsed
    /\ painted.config.cell_border
    /\ ~painted.config.separators_collapsed
    /\ Len(painted.grid.cells) = 81
    /\ SharedColumns(AreaAt(1, 0), AreaAt(2, 0)) = 1
    /\ SharedColumns(AreaAt(2, 0), AreaAt(3, 0)) = 0
    /\ SharedRows(AreaAt(0, 0), AreaAt(0, 1)) = 1

-----------------------------------------------------------------------------
(* src/src/ratatui.rs: the box-drawing glyphs and Cell::get_border_set. A glyph is
   the record of its four arms, each None, Plain (a single line) or Double, read off
   the character of the source: "╤" has no arm up, a plain arm down and double arms
   left and right. *)

BorderStyles == {"None", "Plain", "Double"}

Glyph(up, down, left, right) == [up |-> up, down |-> down, left |-> left, right |-> right]

\* " "
BLANK == Glyph("None", "None", "None", "None")

DOUBLE_HORIZONTAL_PLAIN_DOWN == Glyph("None", "Plain", "Double", "Double")

DOUBLE_HORIZONTAL_PLAIN_UP == Glyph("Plain", "None", "Double", "Double")

DOUBLE_HORIZONTAL_RIGHT_PLAIN_VERTICAL == Glyph("Plain", "Plain", "None", "Double")

DOUBLE_HORIZONTAL_LEFT_PLAIN_VERTICAL == Glyph("Plain", "Plain", "Double", "None")

DOUBLE_HORIZONTAL_PLAIN_CROSS == Glyph("Plain", "Plain", "Double", "Double")

DOUBLE_RIGHT_PLAIN_DOWN == Glyph("None", "Plain", "None", "Double")

DOUBLE_RIGHT_PLAIN_UP == Glyph("Plain", "None", "None", "Double")

DOUBLE_LEFT_PLAIN_DOWN == Glyph("None", "Plain", "Double", "None")

DOUBLE_LEFT_PLAIN_UP == Glyph("Plain", "None", "Double", "None")

DOUBLE_VERTICAL_DOWN_PLAIN_HORIZONTAL == Glyph("None", "Double", "Plain", "Plain")

DOUBLE_VERTICAL_UP_PLAIN_HORIZONTAL == Glyph("Double", "None", "Plain", "Plain")

DOUBLE_VERTICAL_PLAIN_RIGHT == Glyph("Double", "Double", "None", "Plain")

DOUBLE_VERTICAL_PLAIN_LEFT == Glyph("Double", "Double", "Plain", "None")

DOUBLE_VERTICAL_PLAIN_CROSS == Glyph("Double", "Double", "Plain", "Plain")

DOUBLE_DOWN_PLAIN_RIGHT == Glyph("None", "Double", "None", "Plain")

DOUBLE_UP_PLAIN_RIGHT == Glyph("Double", "None", "None", "Plain")

DOUBLE_DOWN_PLAIN_LEFT == Glyph("None", "Double", "Plain", "None")

DOUBLE_UP_PLAIN_LEFT == Glyph("Double", "None", "Plain", "None")

\* ratatui::symbols::line::{VERTICAL, HORIZONTAL, DOUBLE_VERTICAL, DOUBLE_HORIZONTAL}
VERTICAL == Glyph("Plain", "Plain", "None", "None")

HORIZONTAL == Glyph("None", "None", "Plain", "Plain")

DOUBLE_VERTICAL == Glyph("Double", "Double", "None", "None")

DOUBLE_HORIZONTAL == Glyph("None", "None", "Double", "Double")

\* ratatui::symbols::line::NORMAL
NORMAL ==
    [vertical |-> Glyph("Plain", "Plain", "None", "None"),
     horizontal |-> Glyph("None", "None", "Plain", "Plain"),
     top_right |-> Glyph("None", "Plain", "Plain", "None"),
     top_left |-> Glyph("None", "Plain", "None", "Plain"),
     bottom_right |-> Glyph("Plain", "None", "Plain", "None"),
     bottom_left |-> Glyph("Plain", "None", "None", "Plain"),
     vertical_left |-> Glyph("Plain", "Plain", "Plain", "None"),
     vertical_right |-> Glyph("Plain", "Plain", "None", "Plain"),
     horizontal_down |-> Glyph("None", "Plain", "Plain", "Plain"),
     horizontal_up |-> Glyph("Plain", "None", "Plain", "Plain"),
     cross |-> Glyph("Plain", "Plain", "Plain", "Plain")]

\* ratatui::symbols::line::DOUBLE
DOUBLE ==
    [vertical |-> Glyph("Double", "Double", "None", "None"),
     horizontal |-> Glyph("None", "None", "Double", "Double"),
     top_right |-> Glyph("None", "Double", "Double", "None"),
     top_left |-> Glyph("None", "Double", "None", "Double"),
     bottom_right |-> Glyph("Double", "None", "Double", "None"),
     bottom_left |-> Glyph("Double", "None", "None", "Double"),
     vertical_left |-> Glyph("Double", "Double", "Double", "None"),
     vertical_right |-> Glyph("Double", "Double", "None", "Double"),
     horizontal_down |-> Glyph("None", "Double", "Double", "Double"),
     horizontal_up |-> Glyph("Double", "None", "Double", "Double"),
     cross |-> Glyph("Double", "Double", "Double", "Double")]

DOUBLE_SIDES_PLAIN ==
    [vertical |-> DOUBLE_VERTICAL,
     horizontal |-> HORIZONTAL,
     top_right |-> DOUBLE_DOWN_PLAIN_LEFT,
     top_left |-> DOUBLE_DOWN_PLAIN_RIGHT,
     bottom_right |-> DOUBLE_UP_PLAIN_LEFT,
     bottom_left |-> DOUBLE_UP_PLAIN_RIGHT,
     vertical_left |-> DOUBLE_VERTICAL_PLAIN_LEFT,
     vertical_right |-> DOUBLE_VERTICAL_PLAIN_RIGHT,
     horizontal_down |-> DOUBLE_VERTICAL_DOWN_PLAIN_HORIZONTAL,
     horizontal_up |-> DOUBLE_VERTICAL_UP_PLAIN_HORIZONTAL,
     cross |-> DOUBLE_VERTICAL_PLAIN_CROSS]

PLAIN_SIDES_DOUBLE ==
    [vertical |-> VERTICAL,
     horizontal |-> DOUBLE_HORIZONTAL,
     top_right |-> DOUBLE_LEFT_PLAIN_DOWN,
     top_left |-> DOUBLE_RIGHT_PLAIN_DOWN,
     bottom_right |-> DOUBLE_LEFT_PLAIN_UP,
     bottom_left |-> DOUBLE_RIGHT_PLAIN_UP,
     vertical_left |-> DOUBLE_HORIZONTAL_RIGHT_PLAIN_VERTICAL,
     vertical_right |-> DOUBLE_HORIZONTAL_LEFT_PLAIN_VERTICAL,
     horizontal_down |-> DOUBLE_HORIZONTAL_PLAIN_DOWN,
     horizontal_up |-> DOUBLE_HORIZONTAL_PLAIN_UP,
     cross |-> DOUBLE_HORIZONTAL_PLAIN_CROSS]

EMPTY_SET ==
    [vertical |-> BLANK,
     horizontal |-> BLANK,
     top_right |-> BLANK,
     top_left |-> BLANK,
     bottom_right |-> BLANK,
     bottom_left |-> BLANK,
     vertical_left |-> BLANK,
     vertical_right |-> BLANK,
     horizontal_down |-> BLANK,
     horizontal_up |-> BLANK,
     cross |-> BLANK]

\* ratatui::symbols::border::EMPTY, the value get_border_set starts from
BorderEmpty ==
    [top_left |-> BLANK, top_right |-> BLANK, bottom_left |-> BLANK,
     bottom_right |-> BLANK, vertical_left |-> BLANK, vertical_right |-> BLANK,
     horizontal_top |-> BLANK, horizontal_bottom |-> BLANK]

\* the line set of a corner that falls back to the set of the vertical side when the
\* horizontal edge is None
CornerSetOfSide(side, edge) ==
    IF side = "Double"
    THEN IF edge = "Double" THEN DOUBLE
         ELSE IF edge = "Plain" THEN DOUBLE_SIDES_PLAIN
         ELSE DOUBLE
    ELSE IF side = "Plain"
    THEN IF edge = "Double" THEN PLAIN_SIDES_DOUBLE
         ELSE IF edge = "Plain" THEN NORMAL
         ELSE NORMAL
    ELSE EMPTY_SET

\* get_border_set: the line set of a corner, from the style of its vertical side and
\* of its horizontal edge
CornerSet(side, edge) ==
    IF side = "Double"
    THEN IF edge = "Double" THEN DOUBLE
         ELSE IF edge = "Plain" THEN DOUBLE_SIDES_PLAIN
         ELSE EMPTY_SET
    ELSE IF side = "Plain"
    THEN IF edge = "Double" THEN PLAIN_SIDES_DOUBLE
         ELSE IF edge = "Plain" THEN NORMAL
         ELSE EMPTY_SET
    ELSE EMPTY_SET

\* get_border_set: result.top_left
TopLeft(cell) ==
    LET set == CornerSet(cell.left, cell.top)
    IN  IF cell.continued_left /\ cell.continued_up THEN set.cross
        ELSE IF cell.continued_left THEN set.horizontal_down
        ELSE IF cell.continued_up THEN set.vertical_right
        ELSE set.top_left

\* get_border_set: result.bottom_left
BottomLeft(cell) ==
    LET set == CornerSet(cell.left, cell.bottom)
    IN  IF cell.continued_left /\ cell.continued_down THEN set.cross
        ELSE IF cell.continued_left THEN set.horizontal_up
        ELSE IF cell.continued_down THEN set.vertical_right
        ELSE set.bottom_left

\* result.top_right taking vertical_right, as the left corners do, for a cell that is
\* continued up only
TopRightAsLeft(cell) ==
    LET set == CornerSet(cell.right, cell.top)
    IN  IF cell.continued_right /\ cell.continued_up THEN set.cross
        ELSE IF cell.continued_right THEN set.horizontal_down
        ELSE IF cell.continued_up THEN set.vertical_right
        ELSE set.top_right

\* get_border_set: result.top_right
TopRight(cell) ==
    LET set == CornerSet(cell.right, cell.top)
    IN  IF cell.continued_right /\ cell.continued_up THEN set.cross
        ELSE IF cell.continued_right THEN set.horizontal_down
        ELSE IF cell.continued_up THEN set.vertical_left
        ELSE set.top_right

\* get_border_set: result.bottom_right
BottomRight(cell) ==
    LET set == CornerSet(cell.right, cell.bottom)
    IN  IF cell.continued_right /\ cell.continued_down THEN set.cross
        ELSE IF cell.continued_right THEN set.horizontal_up
        ELSE IF cell.continued_down THEN set.vertical_left
        ELSE set.bottom_right

\* get_border_set: the glyph of a side or an edge of the given style; what
\* border::EMPTY holds when the style is None
SideGlyph(style, field) ==
    IF style = "Double" THEN DOUBLE[field]
    ELSE IF style = "Plain" THEN NORMAL[field]
    ELSE BLANK

\* Cell::get_border_set
GetBorderSet(cell) ==
    [BorderEmpty EXCEPT
        !.top_left = TopLeft(cell),
        !.bottom_left = BottomLeft(cell),
        !.top_right = TopRight(cell),
        !.bottom_right = BottomRight(cell),
        !.vertical_right = SideGlyph(cell.right, "vertical"),
        !.horizontal_top = SideGlyph(cell.top, "horizontal"),
        !.horizontal_bottom = SideGlyph(cell.bottom, "horizontal"),
        !.vertical_left = SideGlyph(cell.left, "vertical")]

-----------------------------------------------------------------------------
(* Cell::get_border_set over every combination of border styles and continued flags *)

BorderSpecs ==
    [left : BorderStyles, right : BorderStyles, top : BorderStyles,
     bottom : BorderStyles, continued_left : BOOLEAN, continued_right : BOOLEAN,
     continued_up : BOOLEAN, continued_down : BOOLEAN]

InitBorder ==
    /\ created = Example
    /\ app = AppNew(created)
    /\ twin = app
    /\ steps = 0
    /\ canvas = NoCanvas
    /\ painted = NoPaint
    /\ checks = FALSE
    /\ term = NoTerm

\* render_cell: cell.get_border_set() for a cell with the given borders
GetBorderSetCall(cell) ==
    /\ painted.kind = "none"
    /\ painted' = [kind |-> "border_set", cell |-> cell, border_set |-> GetBorderSet(cell)]
    /\ UNCHANGED <<app, created, steps, twin, canvas, checks, term>>

NextBorder == \E cell \in BorderSpecs : GetBorderSetCall(cell)

SpecBorder == InitBorder /\ [][NextBorder]_vars

\* get_border_set has been called
BorderSetMade == painted.kind = "border_set"

\* the cell seen in a mirror: left and right swapped
MirrorCell(cell) ==
    [cell EXCEPT !.left = cell.right, !.right = cell.left,
                 !.continued_left = cell.continued_right,
                 !.continued_right = cell.continued_left]

\* the glyph seen in a mirror: its left and right arms swapped
MirrorGlyph(glyph) == [glyph EXCEPT !.left = glyph.right, !.right = glyph.left]

\* C20: get_border_set is symmetric under a left-right mirror: for every combination
\* of border styles and continued flags, the border set of the mirrored cell has as
\* top-left and bottom-left glyphs the mirror images of the top-right and bottom-right
\* glyphs of the cell, and the other way round, and has the side glyphs swapped
C20_BorderSetMirrorSymmetric ==
    BorderSetMade =>
        LET set == painted.border_set
            mirrored == GetBorderSet(MirrorCell(painted.cell))
        IN  /\ mirrored.top_left = MirrorGlyph(set.top_right)
            /\ mirrored.top_right = MirrorGlyph(set.top_left)
            /\ mirrored.bottom_left = MirrorGlyph(set.bottom_right)
            /\ mirrored.bottom_right = MirrorGlyph(set.bottom_left)
            /\ mirrored.vertical_left = set.vertical_right
            /\ mirrored.vertical_right = set.vertical_left
            /\ mirrored.horizontal_top = set.horizontal_top
            /\ mirrored.horizontal_bottom = set.horizontal_bottom

\* the border set of a cell with a double left and a plain right side under a double
\* top edge, continued up only: its upper corners are not mirror images of each other
C20_Witness ==
    /\ BorderSetMade
    /\ painted.cell.left = "Double"
    /\ painted.cell.right = "Plain"
    /\ painted.cell.top = "Double"
    /\ painted.cell.continued_up
    /\ ~painted.cell.continued_left
    /\ ~painted.cell.continued_right
    /\ painted.border_set.top_left = DOUBLE.vertical_right
    /\ painted.border_set.top_right = DOUBLE_HORIZONTAL_RIGHT_PLAIN_VERTICAL
    /\ painted.border_set.vertical_left = DOUBLE_VERTICAL
    /\ painted.border_set.vertical_right = VERTICAL

-----------------------------------------------------------------------------
(* Properties of App::handle_key, over the states of Spec *)

\* the keys of the navigation arms and of the arms that edit the cell
MoveKeys == {"Up", "k", "Down", "j", "Left", "h", "Right", "l"}
EditKeys == {DigitChars[i] : i \in 1 .. 10} \cup {"Backspace", "Delete", "+", "=", "-", "_"}

\* two models differ at most in the cell (x, y)
SameButCell(m, n, x, y) ==
    \A u \in Idx : \A v \in Idx : (u # x \/ v # y) => Get(m, u, v) = Get(n, u, v)

\* C21: handle_key maps each key to at most one kind of mutation: a move key leaves
\* the model unchanged; a digit, Backspace/Delete, +/= or -/_ leaves the cursor
\* unchanged and changes at most the cell under the cursor; q and Esc set only the
\* quit flag, d only the debug flag; any other key changes nothing
C21_HandleKeyOneMutation ==
    \A key \in Keys :
        LET after == HandleKey(app, key)
        IN  /\ key \in MoveKeys =>
                  /\ after.model = app.model
                  /\ after.should_quit = app.should_quit
                  /\ after.debug = app.debug
            /\ key \in EditKeys =>
                  /\ after.cursor_x = app.cursor_x
                  /\ after.cursor_y = app.cursor_y
                  /\ SameButCell(after.model, app.model, app.cursor_x, app.cursor_y)
                  /\ after.should_quit = app.should_quit
                  /\ after.debug = app.debug
            /\ key \in {"q", "Esc"} => after = [app EXCEPT !.should_quit = TRUE]
            /\ key = "d" => after = [app EXCEPT !.debug = ~app.debug]
            /\ key \notin (MoveKeys \cup EditKeys \cup {"q", "Esc", "d"}) => after = app

\* after a move to the right and a digit key the cell under the cursor, (1, 0), has a
\* value it was not created with, and a further digit key changes that cell again
C21_Witness ==
    /\ steps = 2
    /\ app.cursor_x = 1
    /\ app.cursor_y = 0
    /\ Get(app.model, 1, 0).value # Get(created, 1, 0).value
    /\ HandleKey(app, "0").model # app.model
    /\ HandleKey(app, "Tab") = app

-----------------------------------------------------------------------------
(* Properties of main on a standard output that is no terminal, over SpecMain *)

\* C22: when standard output is not a terminal main returns the Unsupported error,
\* and in no state after the check is raw mode enabled, the alternate screen entered,
\* the guard built, a frame drawn or a key handled
C22_NotATtyReturnsUnsupported ==
    /\ term.tty = "no" =>
          /\ term.pc = "returned"
          /\ term.result = "Unsupported"
          /\ ~term.raw
          /\ ~term.alt
          /\ ~term.guard
          /\ painted = NoPaint
          /\ steps = 0
    /\ term.result = "Unsupported" => term.tty = "no"

\* main has returned after is_tty answered that standard output is no terminal
C22_Witness ==
    /\ term.tty = "no"
    /\ term.pc = "returned"
    /\ term.result = "Unsupported"

-----------------------------------------------------------------------------
(* Properties of the strides of render_sudoku_grid, over the layouts of SpecConfig *)

\* the indices whose successor lies in the same block
InsideBlock == {0, 1, 3, 4, 6, 7}

\* render_sudoku_grid: the distance from the origin of the cell with index i to the
\* origin of the next cell, both taken before get_correction moves them
Step(config, i, stride) ==
    (CellPos(config, 0, i + 1, stride) + GetCorrection(config, i + 1)[2])
        - (CellPos(config, 0, i, stride) + GetCorrection(config, i)[2])

-----------------------------------------------------------------------------
(* Properties of the corner glyphs of Cell::get_border_set, over SpecBorder *)

\* an arm of the given style where the flag is set, none where it is not
Arm(flag, style) == IF flag THEN style ELSE "None"

\* C24: for every border specification and every corner whose two adjacent sides are
\* both not None, the corner glyph has an arm along each of the two sides into the
\* cell, an outward horizontal arm exactly when the continued_left/right flag of the
\* corner is set and an outward vertical arm exactly when its continued_up/down flag
\* is set; vertical arms carry the style of the vertical side and horizontal arms the
\* style of the horizontal side
C24_CornerArms ==
    BorderSetMade =>
        LET cell == painted.cell
            set == painted.border_set
        IN  /\ (cell.left # "None" /\ cell.top # "None") =>
                  set.top_left = Glyph(Arm(cell.continued_up, cell.left), cell.left,
                                       Arm(cell.continued_left, cell.top), cell.top)
            /\ (cell.left # "None" /\ cell.bottom # "None") =>
                  set.bottom_left = Glyph(cell.left, Arm(cell.continued_down, cell.left),
                                          Arm(cell.continued_left, cell.bottom), cell.bottom)
            /\ (cell.right # "None" /\ cell.top # "None") =>
                  set.top_right = Glyph(Arm(cell.continued_up, cell.right), cell.right,
                                        cell.top, Arm(cell.continued_right, cell.top))
            /\ (cell.right # "None" /\ cell.bottom # "None") =>
                  set.bottom_right = Glyph(cell.right, Arm(cell.continued_down, cell.right),
                                           cell.bottom, Arm(cell.continued_right, cell.bottom))


\* the four corners of the border set made, each with the styles of its vertical and
\* of its horizontal side
Corners ==
    {[glyph |-> painted.border_set.top_left, side |-> painted.cell.left, edge |-> painted.cell.top],
     [glyph |-> painted.border_set.bottom_left, side |-> painted.cell.left, edge |-> painted.cell.bottom],
     [glyph |-> painted.border_set.top_right, side |-> painted.cell.right, edge |-> painted.cell.top],
     [glyph |-> painted.border_set.bottom_right, side |-> painted.cell.right, edge |-> painted.cell.bottom]}

\* the styles of the arms of a glyph
ArmStyles(glyph) == {glyph.up, glyph.down, glyph.left, glyph.right} \ {"None"}

\* C25 as stated: a corner with exactly one adjacent side that is not None is a glyph
\* that is not blank and is drawn in the style of that side, and a corner is blank
\* only when both adjacent sides are None
C25_OneSideEndpoint ==
    BorderSetMade =>
        \A corner \in Corners :
            /\ (corner.side # "None" /\ corner.edge = "None") =>
                  ArmStyles(corner.glyph) = {corner.side}
            /\ (corner.side = "None" /\ corner.edge # "None") =>
                  ArmStyles(corner.glyph) = {corner.edge}
            /\ corner.glyph = BLANK => (corner.side = "None" /\ corner.edge = "None")

\* C25 amended: a corner with exactly one adjacent side that is not None is the blank
\* glyph, as is a corner with both adjacent sides None; a corner is not blank exactly
\* when both adjacent sides are not None
C25_OneSideBlank ==
    BorderSetMade =>
        \A corner \in Corners :
            corner.glyph = BLANK <=> (corner.side = "None" \/ corner.edge = "None")

\* a cell with a plain left side and no top edge, continued up: the left side has its
\* line glyph and the top-left corner is blank
C25_Witness ==
    /\ BorderSetMade
    /\ painted.cell.left = "Plain"
    /\ painted.cell.top = "None"
    /\ painted.cell.continued_up
    /\ painted.border_set.vertical_left = VERTICAL
    /\ painted.border_set.top_left = BLANK

-----------------------------------------------------------------------------
(* Properties of the geometry of render_sudoku_grid and render_separators, over the
   frames of SpecLayout *)

\* C26: for every canvas whose grid band is at least 9 x 9 and whose layout passes the
\* fit check no u16 subtraction of the geometry goes below zero: not the position of a
\* cell, inner + index * stride + (index / 3) * separator_stride - correction, not the
\* size of a cell, cell size - correction, and not the position of a separator block,
\* inner + block * stride - offset
C26_NoUnderflow ==
    (BandFromNine /\ Fits) =>
        /\ \A i \in Idx :
              /\ CellPos(painted.config, painted.grid.inner.x, i, CellStrideX(painted.config)) >= 0
              /\ CellPos(painted.config, painted.grid.inner.y, i, CellStrideY(painted.config)) >= 0
              /\ painted.config.cell_w - GetCorrection(painted.config, i)[1] >= 0
              /\ painted.config.cell_h - GetCorrection(painted.config, i)[1] >= 0
        /\ \A i \in 1 .. Len(Separators(painted.config, painted.grid.inner)) :
              /\ Separators(painted.config, painted.grid.inner)[i].x >= 0
              /\ Separators(painted.config, painted.grid.inner)[i].y >= 0


\* the rectangle r lies inside the rectangle s
Inside(r, s) ==
    /\ s.x <= r.x
    /\ s.y <= r.y
    /\ r.x + r.width <= s.x + s.width
    /\ r.y + r.height <= s.y + s.height

\* C27: in every frame whose layout passes the fit check every painted cell rectangle
\* (x, y, w, h plus one row when the cell has a border) lies inside the grid band that
\* ui handed to render_sudoku_grid
C27_CellsInsideBand ==
    GridShown =>
        \A i \in 1 .. Len(painted.grid.cells) :
            Rendered(painted.grid.cells[i]) =>
                Inside(CellArea(painted.grid.cells[i]), painted.grid_area)


\* the independent separators are drawn in the frame
SeparatorsDrawn ==
    /\ GridShown
    /\ painted.config.separators_visible
    /\ ~painted.config.separators_collapsed
    /\ Len(painted.grid.separators) > 0

\* render_separators: the columns of the vertical line between the blocks k - 1 and k,
\* the right border of the blocks of column k - 1 and the left border of those of
\* column k; and the rows of the horizontal line likewise
LineColumns(k) ==
    {painted.grid.separators[i].x + painted.grid.separators[i].width - 1 :
        i \in {j \in 1 .. Len(painted.grid.separators) : painted.grid.separators[j].bx = k - 1}}
    \cup {painted.grid.separators[i].x :
            i \in {j \in 1 .. Len(painted.grid.separators) : painted.grid.separators[j].bx = k}}

LineRows(k) ==
    {painted.grid.separators[i].y + painted.grid.separators[i].height - 1 :
        i \in {j \in 1 .. Len(painted.grid.separators) : painted.grid.separators[j].by = k - 1}}
    \cup {painted.grid.separators[i].y :
            i \in {j \in 1 .. Len(painted.grid.separators) : painted.grid.separators[j].by = k}}

\* the painted cell rectangles of the frame, each with the coordinate of its cell
PaintedAreas ==
    {[gx |-> painted.grid.cells[i].gx, gy |-> painted.grid.cells[i].gy,
      area |-> CellArea(painted.grid.cells[i])] :
        i \in {j \in 1 .. Len(painted.grid.cells) : Rendered(painted.grid.cells[j])}}

\* the column c lies behind the cells of the blocks before k and before those from k on
ColumnBetween(c, k) ==
    \A p \in PaintedAreas :
        IF p.gx \div 3 < k THEN p.area.x + p.area.width <= c ELSE c < p.area.x

\* the row r lies below the cells of the blocks before k and above those from k on
RowBetween(r, k) ==
    \A p \in PaintedAreas :
        IF p.gy \div 3 < k THEN p.area.y + p.area.height <= r ELSE r < p.area.y

\* C28 in the x axis
VerticalLinesBetween ==
    \A k \in {1, 2} : Cardinality(LineColumns(k)) = 1 /\ \A c \in LineColumns(k) : ColumnBetween(c, k)

\* C28 in the y axis
HorizontalLinesBetween ==
    \A k \in {1, 2} : Cardinality(LineRows(k)) = 1 /\ \A r \in LineRows(k) : RowBetween(r, k)

\* C28: whenever independent separators are drawn, each of the two interior vertical
\* separator lines occupies one column and each of the two interior horizontal lines
\* one row that lies strictly between the cells of the two neighbouring blocks and is
\* covered by no painted cell rectangle, in the x axis as in the y axis
C28_SeparatorsBetweenBlocks ==
    SeparatorsDrawn => (VerticalLinesBetween /\ HorizontalLinesBetween)

-----------------------------------------------------------------------------
(* run_app under the keys that move the cursor: any number of key presses, each
   followed by the draw of the next iteration *)

\* a terminal that shows the grid with borders, the smallest one that shows it, and
\* one that is too small for it
CursorSizes ==
    {[width |-> 40, height |-> 20], [width |-> 9, height |-> 9], [width |-> 8, height |-> 8]}

\* the move keys, the keys of the debug and quit flags and a key without an arm
CursorKeys == MoveKeys \cup {"d", "q", "Esc", "Tab"}

InitCursor ==
    /\ created = Example
    /\ app = AppNew(created)
    /\ twin = app
    /\ steps = 0
    /\ canvas \in CursorSizes
    /\ painted = NoPaint
    /\ checks \in BOOLEAN
    /\ term = NoTerm

\* run_app: a key is handled, and unless it quits the next iteration draws
CursorKey(key) ==
    /\ Looping(app, painted)
    /\ app' = HandleKey(app, key)
    /\ painted' = IF app'.should_quit THEN painted ELSE Draw(app', canvas, checks, painted)
    /\ UNCHANGED <<created, steps, twin, canvas, checks, term>>

NextCursor ==
    \/ FirstDraw
    \/ \E key \in CursorKeys : CursorKey(key)

SpecCursor == InitCursor /\ [][NextCursor]_vars

\* the cells of the frame that are the selected one
SelectedCells == {i \in 1 .. Len(painted.grid.cells) : painted.grid.cells[i].selected}

\* C29: after any sequence of key events from the cursor (0, 0), cursor_x and cursor_y
\* are within 0..=8; a move key pressed at the edge it moves towards leaves the App
\* unchanged; and in every frame that shows the grid exactly one of the 81 cells is
\* the selected one, the cell under the cursor
C29_CursorStaysInGrid ==
    /\ app.cursor_x \in 0 .. 8
    /\ app.cursor_y \in 0 .. 8
    /\ app.cursor_x = 0 => \A key \in {"Left", "h"} : HandleKey(app, key) = app
    /\ app.cursor_x = 8 => \A key \in {"Right", "l"} : HandleKey(app, key) = app
    /\ app.cursor_y = 0 => \A key \in {"Up", "k"} : HandleKey(app, key) = app
    /\ app.cursor_y = 8 => \A key \in {"Down", "j"} : HandleKey(app, key) = app
    /\ GridShown =>
          /\ Len(painted.grid.cells) = 81
          /\ Cardinality(SelectedCells) = 1
          /\ \A i \in SelectedCells :
                /\ painted.grid.cells[i].gx = app.cursor_x
                /\ painted.grid.cells[i].gy = app.cursor_y

\* the cursor has been moved to the last cell of the grid, and the frame shows that
\* cell as the selected one
C29_Witness ==
    /\ app.cursor_x = 8
    /\ app.cursor_y = 8
    /\ GridShown
    /\ \E i \in SelectedCells : painted.grid.cells[i].gx = 8 /\ painted.grid.cells[i].gy = 8

-----------------------------------------------------------------------------
(* Properties of the cell values, over the states of Spec *)

\* the values of i8
I8 == -128 .. 127

\* C30: after any sequence of set and add on a model built by new() or from an array
\* of u8, every cell value is within 0..=9, an index of the table of SudokuValue::text;
\* and a further set with any u8 value or add with any i8 value on the cell under the
\* cursor leaves a value within 0..=9 there
C30_ValuesAreDigits ==
    /\ \A x \in Idx : \A y \in Idx : Get(app.model, x, y).value \in 0 .. 9
    /\ \A value \in 0 .. U8Max :
          Get(Set(app.model, app.cursor_x, app.cursor_y, value),
              app.cursor_x, app.cursor_y).value \in 0 .. 9
    /\ \A value \in I8 :
          Get(Add(app.model, app.cursor_x, app.cursor_y, value),
              app.cursor_x, app.cursor_y).value \in 0 .. 9

\* a model built from the array with the entries 10, 13, 200 and 255, on which two
\* operations have left a 9 in a cell that was created empty; set with 250 and add
\* with -128 on the cell under the cursor change its value
C30_Witness ==
    /\ created = From(OddArray)
    /\ steps = 2
    /\ \E x \in Idx : \E y \in Idx :
          /\ Get(created, x, y).value = 0
          /\ Get(app.model, x, y).value = 9
    /\ Set(app.model, app.cursor_x, app.cursor_y, 250) # app.model
    /\ Add(app.model, app.cursor_x, app.cursor_y, -128) # app.model

====
